---- MODULE Spec2Model ----
(***************************************************************************)
(* Model of dwave_networkx.generators.pegasus.pegasus_graph and of the     *)
(* guard of dwave_networkx.drawing.pegasus_layout.pegasus_layout.          *)
(*                                                                         *)
(* One behaviour is one call pegasus_graph(m, node_list, edge_list, data,  *)
(* offset_lists, offsets_index, coordinates) followed by a call of         *)
(* pegasus_layout on the returned graph.  pc is the position in the body.  *)
(*                                                                         *)
(* Python values: None is the empty set and a value x that may be None is  *)
(* the singleton {x}; a list or tuple of length 12 is a sequence indexed   *)
(* from 0 through At; a node label is an integer (coordinates = False) or  *)
(* a 4-tuple (coordinates = True); an undirected edge is the set of its    *)
(* endpoints; a dict is a function from its keys.                          *)
(***************************************************************************)
EXTENDS Integers, FiniteSets, Sequences, TLC

VARIABLES
    pc,                 \* position in pegasus_graph / pegasus_layout
    m,                  \* parameter m
    coordinates,        \* parameter coordinates
    data,               \* parameter data
    node_list,          \* parameter node_list (None or the set it is turned into)
    edge_list,          \* parameter edge_list (None or a set of pairs)
    call,               \* offset_lists and offsets_index as passed by the caller
    offsets_index,      \* local offsets_index (reassigned at line 62)
    offset_lists,       \* local offset_lists (reassigned at lines 63-72)
    offsets_descriptor, \* local offsets_descriptor
    Gnode,              \* G.node: node label -> attribute dict
    Gedges,             \* edges of G
    Ggraph,             \* G.graph: whole-graph attribute dict
    error,              \* exception that left pegasus_graph, or "none"
    layout_error        \* exception that left pegasus_layout, or "none"

vars == <<pc, m, coordinates, data, node_list, edge_list, call, offsets_index,
          offset_lists, offsets_descriptor, Gnode, Gedges, Ggraph, error,
          layout_error>>

----------------------------------------------------------------------------
(* Bounds of the explored inputs *)

MaxM == 3
MaxIndex == 8

----------------------------------------------------------------------------
(* Python values *)

None == {}
Some(x) == {x}
Get(o) == CHOOSE x \in o : TRUE

\* range(a, b)
Range(a, b) == a .. (b - 1)

\* list[i] for 0 <= i < len(list)
At(list, i) == list[i + 1]

\* a bool used as an int
B(b) == IF b THEN 1 ELSE 0

EmptyDict == <<>>

----------------------------------------------------------------------------
(* The eight predefined offset configurations *)

L2_10_6 == <<2, 2, 2, 2, 10, 10, 10, 10, 6, 6, 6, 6>>
L6_2_10 == <<6, 6, 6, 6, 2, 2, 2, 2, 10, 10, 10, 10>>
L10_6_2 == <<10, 10, 10, 10, 6, 6, 6, 6, 2, 2, 2, 2>>
L2_6_10 == <<2, 2, 2, 2, 6, 6, 6, 6, 10, 10, 10, 10>>
L6_2_10_6 == <<6, 6, 2, 2, 2, 2, 10, 10, 10, 10, 6, 6>>
L6_10_2_6 == <<6, 6, 10, 10, 10, 10, 2, 2, 2, 2, 6, 6>>
L6 == <<6, 6, 6, 6, 6, 6, 6, 6, 6, 6, 6, 6>>

OffsetTable ==
    << <<L2_10_6, L6_2_10>>,
       <<L2_10_6, L2_10_6>>,
       <<L2_10_6, L10_6_2>>,
       <<L10_6_2, L10_6_2>>,
       <<L10_6_2, L2_6_10>>,
       <<L6_2_10_6, L6_2_10_6>>,
       <<L6_2_10_6, L6_10_2_6>>,
       <<L6, L6>> >>

\* list[i] of a Python list: a negative i counts from the end, and an i
\* outside -len .. len-1 raises IndexError
IndexInRange(list, i) == (0 - Len(list)) <= i /\ i < Len(list)
ListIndex(list, i) == IF i < 0 THEN list[Len(list) + i + 1] ELSE list[i + 1]

\* offsets_index or 0
OrZero(oi) == IF oi = None \/ oi = Some(0) THEN 0 ELSE Get(oi)

\* BothGiven with a truth test in place of "is not None"
BothGiven_Truthy(oi) == oi # None /\ oi # Some(0)

\* the test of line 74
BothGiven(oi) == oi # None

----------------------------------------------------------------------------
(* Labels *)

max_size(mm) == mm * (mm - 1) * 24

\* c2i with the stride m in place of m1 for k
c2i_WrongStride(coords, mm, u, w, k, z) ==
    IF coords THEN <<u, w, k, z>>
    ELSE u * 12 * mm * (mm - 1) + w * 12 * (mm - 1) + k * mm + z

c2i(coords, mm, u, w, k, z) ==
    IF coords THEN <<u, w, k, z>>
    ELSE u * 12 * mm * (mm - 1) + w * 12 * (mm - 1) + k * (mm - 1) + z

----------------------------------------------------------------------------
(* The three generated edge families: the index tuples the generator       *)
(* expressions run over, and the pair each one yields                      *)

\* ChainIdx with z over range(m1) in place of range(m1 - 1)
ChainIdx_OffByOne(mm) ==
    { <<u, w, k, z>> : u \in {0, 1}, w \in Range(0, mm), k \in Range(0, 12),
                       z \in Range(0, mm - 1) }

ChainIdx(mm) ==
    { <<u, w, k, z>> : u \in {0, 1}, w \in Range(0, mm), k \in Range(0, 12),
                       z \in Range(0, (mm - 1) - 1) }

ChainPair(coords, mm, i) ==
    << c2i(coords, mm, i[1], i[2], i[3], i[4]),
       c2i(coords, mm, i[1], i[2], i[3], i[4] + 1) >>

\* PairIdx with k over range(5) in place of range(6)
PairIdx_Short(mm) ==
    { <<u, w, k, z>> : u \in {0, 1}, w \in Range(0, mm), k \in Range(0, 5),
                       z \in Range(0, mm - 1) }

PairIdx(mm) ==
    { <<u, w, k, z>> : u \in {0, 1}, w \in Range(0, mm), k \in Range(0, 6),
                       z \in Range(0, mm - 1) }

PairPair(coords, mm, i) ==
    << c2i(coords, mm, i[1], i[2], 2 * i[3], i[4]),
       c2i(coords, mm, i[1], i[2], 2 * i[3] + 1, i[4]) >>

\* KRange without the restriction at the first and last tile
KRange_Unclipped(mm, off1, w, kk) == Range(0, 12)

\* KRange without the upper bound at the last tile
KRange_NoUpper(mm, off1, w, kk) ==
    Range(IF w # 0 THEN 0 ELSE At(off1, kk), 12)

\* the range of k at tile w and slot kk (line 106)
KRange(mm, off1, w, kk) ==
    Range(IF w # 0 THEN 0 ELSE At(off1, kk),
          IF w < mm - 1 THEN 12 ELSE At(off1, kk))

\* index tuples <<w, kk, k, z>>
CrossIdx(mm, off1) ==
    { i \in Range(0, mm) \X Range(0, 12) \X Range(0, 12) \X Range(0, mm - 1) :
        i[3] \in KRange(mm, off1, i[1], i[2]) }

CrossSecond(off0, off1, w, kk, k, z) ==
    << 1, z + B(kk < At(off0, k)), kk, w - B(k < At(off1, kk)) >>

CrossPair(coords, mm, off0, off1, i) ==
    LET w == i[1]  kk == i[2]  k == i[3]  z == i[4]
        q == CrossSecond(off0, off1, w, kk, k, z)
    IN  << c2i(coords, mm, 0, w, k, z), c2i(coords, mm, q[1], q[2], q[3], q[4]) >>

ChainPairs(coords, mm) == { ChainPair(coords, mm, i) : i \in ChainIdx(mm) }
PairPairs(coords, mm) == { PairPair(coords, mm, i) : i \in PairIdx(mm) }
CrossPairs(coords, mm, offs) ==
    { CrossPair(coords, mm, offs[1], offs[2], i) : i \in CrossIdx(mm, offs[2]) }

----------------------------------------------------------------------------
(* networkx.Graph operations on (node, edges) *)

\* G.add_nodes_from(nodes): new nodes get an empty attribute dict
AddNodes(node, nodes) ==
    [n \in (DOMAIN node) \cup nodes |->
        IF n \in DOMAIN node THEN node[n] ELSE EmptyDict]

\* G.add_edges_from(pairs): nodes after / edges after
AddEdgesNode(node, pairs) ==
    AddNodes(node, {p[1] : p \in pairs} \cup {p[2] : p \in pairs})
AddEdgesEdges(edges, pairs) == edges \cup { {p[1], p[2]} : p \in pairs }

\* G.remove_nodes_from(nodes): nodes after / edges after
RemoveNodesNode(node, nodes) == [n \in (DOMAIN node) \ nodes |-> node[n]]
RemoveNodesEdges(edges, nodes) == { e \in edges : e \cap nodes = {} }

\* NodeListNode without the final add_nodes_from
NodeListNode_NoAdd(node, nodes) ==
    RemoveNodesNode(node, (DOMAIN node) \ nodes)

\* lines 113-116: nodes = set(node_list); remove set(G) - nodes; add nodes
NodeListNode(node, nodes) ==
    AddNodes(RemoveNodesNode(node, (DOMAIN node) \ nodes), nodes)
NodeListEdges(node, edges, nodes) ==
    RemoveNodesEdges(edges, (DOMAIN node) \ nodes)

----------------------------------------------------------------------------
(* Lines 118-131: the loop that attaches the cross-reference attribute.    *)
(* The four nested for loops give the sequence of the tuples q in the      *)
(* order they are visited; the counter v starts at 0 and is incremented    *)
(* once per iteration, so the i-th visited tuple (from 1) meets v = i - 1. *)

\* ZIter with z over range(m) in place of range(m1)
ZIter_OffByOne(mm, u, w, k) == [i \in 1 .. mm |-> <<u, w, k, i - 1>>]

\* for z in range(m1): q = u, w, k, z
ZIter(mm, u, w, k) == [i \in 1 .. (mm - 1) |-> <<u, w, k, i - 1>>]

\* the first n iterations of: for k in range(12)
RECURSIVE KIter(_, _, _, _)
KIter(mm, u, w, n) ==
    IF n <= 0 THEN <<>> ELSE KIter(mm, u, w, n - 1) \o ZIter(mm, u, w, n - 1)

\* the first n iterations of: for w in range(m)
RECURSIVE WIter(_, _, _)
WIter(mm, u, n) ==
    IF n <= 0 THEN <<>> ELSE WIter(mm, u, n - 1) \o KIter(mm, u, n - 1, 12)

\* the first n iterations of: for u in range(2)
RECURSIVE UIter(_, _)
UIter(mm, n) ==
    IF n <= 0 THEN <<>> ELSE UIter(mm, n - 1) \o WIter(mm, n - 1, mm)

\* the node dicts after the loop: lines 124-130 on every visited (q, v)
AttachData(coords, mm, node) ==
    LET visited == UIter(mm, 2)
    IN  [n \in DOMAIN node |->
            IF coords
            THEN IF \E i \in DOMAIN visited : visited[i] = n
                 THEN ("linear_index" :>
                          (CHOOSE i \in DOMAIN visited : visited[i] = n) - 1)
                      @@ node[n]
                 ELSE node[n]
            ELSE IF n + 1 \in DOMAIN visited
                 THEN ("pegasus_index" :> visited[n + 1]) @@ node[n]
                 ELSE node[n]]

----------------------------------------------------------------------------
(* pegasus_layout: the guard of line 80 and the keys of G.graph it and     *)
(* pegasus_node_placer_2d read                                             *)

PlacerKeys == {"rows", "horizontal_offsets", "vertical_offsets", "tile"}

LayoutOutcome(graph, node) ==
    IF "family" \notin DOMAIN graph THEN "ValueError"
    ELSE IF graph["family"] # "pegasus" THEN "ValueError"
    ELSE IF ~ (PlacerKeys \subseteq DOMAIN graph) THEN "KeyError"
    ELSE IF "labels" \in DOMAIN graph /\ graph["labels"] = "coordinate" THEN "none"
    ELSE IF "data" \notin DOMAIN graph THEN "KeyError"
    ELSE IF graph["data"]
         THEN IF \A n \in DOMAIN node : "pegasus_index" \in DOMAIN node[n]
              THEN "none" ELSE "KeyError"
    ELSE IF "labels" \in DOMAIN graph /\ graph["labels"] \in {"int", "nice"}
         THEN "none"
    ELSE "ValueError"

----------------------------------------------------------------------------
(* Inputs of the explored calls *)

\* an offset_lists argument that is none of the predefined pairs
CustomOffsets == <<L2_6_10, L6>>

\* the label of tuple q in the caller's labeling
PoolLabel(coords, mm, q) ==
    IF coords THEN q
    ELSE q[1] * 12 * mm * (mm - 1) + q[2] * 12 * (mm - 1) + q[3] * (mm - 1) + q[4]

Q0 == <<0, 0, 0, 0>>
Q1 == <<0, 0, 1, 0>>
QBad == <<2, 0, 0, 0>>

NodePool(coords, mm) == { PoolLabel(coords, mm, q) : q \in {Q0, Q1, QBad} }

EdgePool(coords, mm) ==
    { << PoolLabel(coords, mm, Q0), PoolLabel(coords, mm, Q1) >>,
      << PoolLabel(coords, mm, Q1), PoolLabel(coords, mm, QBad) >> }

Init ==
    /\ pc = "offsets"
    /\ m \in 1 .. MaxM
    /\ coordinates \in BOOLEAN
    /\ data \in BOOLEAN
    /\ node_list \in {None} \cup { Some(s) : s \in SUBSET NodePool(coordinates, m) }
    /\ edge_list \in {None} \cup { Some(s) : s \in SUBSET EdgePool(coordinates, m) }
    /\ call \in [ offset_lists : {None, Some(CustomOffsets)},
                  offsets_index : {None} \cup { Some(i) : i \in (0 - 1) .. MaxIndex } ]
    /\ offsets_index = call.offsets_index
    /\ offset_lists = call.offset_lists
    /\ offsets_descriptor = None
    /\ Gnode = EmptyDict
    /\ Gedges = {}
    /\ Ggraph = EmptyDict
    /\ error = "none"
    /\ layout_error = "none"

----------------------------------------------------------------------------
(* pegasus_graph *)

params == <<m, coordinates, data, node_list, edge_list, call>>
graph == <<Gnode, Gedges, Ggraph>>

\* lines 61-76
ResolveOffsets ==
    /\ pc = "offsets"
    /\ IF offset_lists = None
       THEN IF IndexInRange(OffsetTable, OrZero(offsets_index))
            THEN /\ offsets_index' = Some(OrZero(offsets_index))
                 /\ offsets_descriptor' = Some(OrZero(offsets_index))
                 /\ offset_lists' = Some(ListIndex(OffsetTable, OrZero(offsets_index)))
                 /\ pc' = "create"
                 /\ error' = error
            ELSE /\ offsets_index' = Some(OrZero(offsets_index))
                 /\ offsets_descriptor' = Some(OrZero(offsets_index))
                 /\ offset_lists' = offset_lists
                 /\ pc' = "raised"
                 /\ error' = "IndexError"
       ELSE IF BothGiven(offsets_index)
            THEN /\ pc' = "raised"
                 /\ error' = "DWaveNetworkXException"
                 /\ UNCHANGED <<offsets_index, offset_lists, offsets_descriptor>>
            ELSE /\ offsets_descriptor' = offset_lists
                 /\ pc' = "create"
                 /\ UNCHANGED <<offsets_index, offset_lists, error>>
    /\ UNCHANGED <<params, graph, layout_error>>

\* lines 78-90
CreateGraph ==
    /\ pc = "create"
    /\ Gnode' = EmptyDict
    /\ Gedges' = {}
    /\ Ggraph' = ("name" :> <<"pegasus_graph", m, Get(offsets_descriptor)>>)
    /\ pc' = IF edge_list = None THEN "chain" ELSE "edge_list"
    /\ UNCHANGED <<params, offsets_index, offset_lists, offsets_descriptor,
                   error, layout_error>>

AddEdgesFrom(pairs, next) ==
    /\ Gnode' = AddEdgesNode(Gnode, pairs)
    /\ Gedges' = AddEdgesEdges(Gedges, pairs)
    /\ pc' = next
    /\ UNCHANGED <<params, offsets_index, offset_lists, offsets_descriptor,
                   Ggraph, error, layout_error>>

\* lines 91-95
AddChainEdges ==
    /\ pc = "chain"
    /\ AddEdgesFrom(ChainPairs(coordinates, m), "pair")

\* lines 97-101
AddPairEdges ==
    /\ pc = "pair"
    /\ AddEdgesFrom(PairPairs(coordinates, m), "cross")

\* lines 103-108
AddCrossEdges ==
    /\ pc = "cross"
    /\ AddEdgesFrom(CrossPairs(coordinates, m, Get(offset_lists)), "node_list")

\* lines 110-111
AddEdgeList ==
    /\ pc = "edge_list"
    /\ AddEdgesFrom(Get(edge_list), "node_list")

\* lines 113-116
ApplyNodeList ==
    /\ pc = "node_list"
    /\ IF node_list # None
       THEN /\ Gnode' = NodeListNode(Gnode, Get(node_list))
            /\ Gedges' = NodeListEdges(Gnode, Gedges, Get(node_list))
       ELSE UNCHANGED <<Gnode, Gedges>>
    /\ pc' = "data"
    /\ UNCHANGED <<params, offsets_index, offset_lists, offsets_descriptor,
                   Ggraph, error, layout_error>>

\* lines 118-131
ApplyData ==
    /\ pc = "data"
    /\ Gnode' = IF data THEN AttachData(coordinates, m, Gnode) ELSE Gnode
    /\ pc' = "return"
    /\ UNCHANGED <<params, offsets_index, offset_lists, offsets_descriptor,
                   Gedges, Ggraph, error, layout_error>>

\* line 133
Return ==
    /\ pc = "return"
    /\ pc' = "returned"
    /\ UNCHANGED <<params, offsets_index, offset_lists, offsets_descriptor,
                   graph, error, layout_error>>

\* pegasus_layout(G) on the returned graph
PegasusLayout ==
    /\ pc = "returned"
    /\ layout_error' = LayoutOutcome(Ggraph, Gnode)
    /\ pc' = "layout_done"
    /\ UNCHANGED <<params, offsets_index, offset_lists, offsets_descriptor,
                   graph, error>>

Next ==
    \/ ResolveOffsets
    \/ CreateGraph
    \/ AddChainEdges
    \/ AddPairEdges
    \/ AddCrossEdges
    \/ AddEdgeList
    \/ ApplyNodeList
    \/ ApplyData
    \/ Return
    \/ PegasusLayout

Spec == Init /\ [][Next]_vars

\* pegasus_graph has just handed G back to the caller
Returned == pc = "returned"

----------------------------------------------------------------------------
(* Vocabulary of the properties *)

\* the linear-index formula of the data model, on a tuple q = (u, w, k, z)
LinearIndex(mm, q) ==
    q[1] * 12 * mm * (mm - 1) + q[2] * 12 * (mm - 1) + q[3] * (mm - 1) + q[4]

ValidTuples(mm) ==
    {0, 1} \X Range(0, mm) \X Range(0, 12) \X Range(0, mm - 1)

ValidTuple(mm, q) ==
    /\ q[1] \in {0, 1}
    /\ q[2] \in Range(0, mm)
    /\ q[3] \in Range(0, 12)
    /\ q[4] \in Range(0, mm - 1)

\* n is a label of the lattice of size mm in the labeling mode
ValidLabel(coords, mm, n) ==
    IF coords THEN ValidTuple(mm, n) ELSE n \in Range(0, 24 * mm * (mm - 1))

\* no node_list and no edge_list
NoOverride == node_list = None /\ edge_list = None

\* one of the predefined configurations 0..7 is selected (None selects 0)
Predefined ==
    /\ call.offset_lists = None
    /\ call.offsets_index \in {None} \cup { Some(i) : i \in 0 .. 7 }

Nodes == DOMAIN Gnode

\* the key of the cross-reference attribute in the labeling mode
RefKey == IF coordinates THEN "linear_index" ELSE "pegasus_index"

\* everything lines 91-108 pass to add_edges_from
GeneratedPairs(coords, mm, offs) ==
    ChainPairs(coords, mm) \cup PairPairs(coords, mm) \cup CrossPairs(coords, mm, offs)

GeneratedEdges(coords, mm, offs) == AddEdgesEdges({}, GeneratedPairs(coords, mm, offs))

Max(a, b) == IF a > b THEN a ELSE b

----------------------------------------------------------------------------
\* C1: with data=True the attached cross-reference is the inverse of the
\* linear-index formula: a vertex v carrying pegasus_index q (integer mode),
\* or a vertex q carrying linear_index v (coordinate mode), has q in range
\* and u*12*m*(m-1) + w*12*(m-1) + k*(m-1) + z = v; and with no override
\* every generated vertex carries it, so that tuple -> linear -> tuple and
\* linear -> tuple -> linear give back the label.
C1_RoundTrip ==
    (Returned /\ data) =>
        /\ \A n \in Nodes :
              RefKey \in DOMAIN Gnode[n] =>
                  IF coordinates
                  THEN ValidTuple(m, n) /\ LinearIndex(m, n) = Gnode[n][RefKey]
                  ELSE ValidTuple(m, Gnode[n][RefKey])
                       /\ LinearIndex(m, Gnode[n][RefKey]) = n
        /\ NoOverride =>
              /\ \A n \in Nodes : RefKey \in DOMAIN Gnode[n]
              /\ \A q \in ValidTuples(m) :
                    LET n == c2i(coordinates, m, q[1], q[2], q[3], q[4])
                    IN  /\ n \in Nodes
                        /\ IF coordinates
                           THEN c2i(FALSE, m, q[1], q[2], q[3], q[4]) = Gnode[n][RefKey]
                           ELSE Gnode[n][RefKey] = q

C1_Witness ==
    /\ Returned /\ data /\ NoOverride /\ m = 3 /\ ~ coordinates
    /\ 143 \in Nodes
    /\ Gnode[143] = ("pegasus_index" :> <<1, 2, 11, 1>>)

\* C2: with no override and a predefined configuration, the vertex set of
\* the integer-labeled graph is exactly 0 .. 24*m*(m-1) - 1, one vertex per
\* valid tuple, and no two valid tuples share a linear index.
C2_VertexSet ==
    (Returned /\ ~ coordinates /\ NoOverride /\ Predefined) =>
        /\ Nodes = Range(0, 24 * m * (m - 1))
        /\ \A q \in ValidTuples(m) : c2i(FALSE, m, q[1], q[2], q[3], q[4]) \in Nodes
        /\ Cardinality({ c2i(FALSE, m, q[1], q[2], q[3], q[4]) : q \in ValidTuples(m) })
              = Cardinality(ValidTuples(m))
        /\ Cardinality(Nodes) = Cardinality(ValidTuples(m))

C2_Witness ==
    /\ Returned /\ ~ coordinates /\ NoOverride /\ m = 3
    /\ call = [offset_lists |-> None, offsets_index |-> Some(5)]
    /\ Nodes = 0 .. 143

\* C3: with no override and a predefined configuration, no edge is a
\* self-loop, both endpoints of every edge are valid labels for m, the three
\* families never yield the same undirected edge twice (there are as many
\* edges as yielded pairs), and the second endpoint of every cross edge has
\* its tile index in [0, m) and its z position in [0, m-1).
C3_EdgesWellFormed ==
    (Returned /\ NoOverride /\ Predefined) =>
        /\ \A e \in Gedges :
              /\ Cardinality(e) = 2
              /\ \A n \in e : n \in Nodes /\ ValidLabel(coordinates, m, n)
        /\ Cardinality(Gedges) =
              Cardinality(ChainIdx(m)) + Cardinality(PairIdx(m))
                + Cardinality(CrossIdx(m, Get(offset_lists)[2]))
        /\ \A i \in CrossIdx(m, Get(offset_lists)[2]) :
              LET q == CrossSecond(Get(offset_lists)[1], Get(offset_lists)[2],
                                   i[1], i[2], i[3], i[4])
              IN  q[2] \in Range(0, m) /\ q[4] \in Range(0, m - 1)

C3_Witness ==
    /\ Returned /\ NoOverride /\ m = 3 /\ coordinates
    /\ call = [offset_lists |-> None, offsets_index |-> Some(0)]
    /\ { <<0, 2, 0, 0>>, <<1, 1, 0, 1>> } \in Gedges
    /\ { <<0, 0, 6, 0>>, <<1, 1, 0, 0>> } \in Gedges

\* C4: with no override and a predefined configuration the graph has
\* 24*m*(m-1) vertices and 24*m*max(m-2,0) + 12*m*(m-1) + 144*(m-1)^2 edges:
\* 48 and 168 for m = 2, none for m = 1, and the call does not fail.
C4_Counts ==
    (NoOverride /\ Predefined) =>
        /\ error = "none" /\ pc # "raised"
        /\ Returned =>
              /\ Cardinality(Nodes) = 24 * m * (m - 1)
              /\ Cardinality(Gedges) =
                    24 * m * Max(m - 2, 0) + 12 * m * (m - 1)
                      + 144 * (m - 1) * (m - 1)
              /\ m = 2 => Cardinality(Nodes) = 48 /\ Cardinality(Gedges) = 168
              /\ m = 1 => Nodes = {} /\ Gedges = {}

C4_Witness ==
    /\ Returned /\ NoOverride /\ m = 2
    /\ call = [offset_lists |-> None, offsets_index |-> Some(7)]
    /\ Cardinality(Gedges) = 168

\* C5: with both offsets_index (any value, 0 included) and offset_lists the
\* call raises DWaveNetworkXException and returns no graph; with neither it
\* uses predefined configuration 0 and builds that graph; with offset_lists
\* alone it uses the supplied pair as (off0, off1).
C5_OffsetExclusivity ==
    /\ (call.offset_lists # None /\ call.offsets_index # None) =>
          /\ pc \in {"offsets", "raised"}
          /\ Nodes = {} /\ Gedges = {}
          /\ pc # "offsets" => pc = "raised" /\ error = "DWaveNetworkXException"
    /\ (call.offset_lists = None /\ call.offsets_index = None /\ pc # "offsets") =>
          /\ error = "none"
          /\ offset_lists = Some(OffsetTable[1])
          /\ offsets_descriptor = Some(0)
          /\ (Returned /\ NoOverride) =>
                Gedges = GeneratedEdges(coordinates, m, OffsetTable[1])
    /\ (call.offset_lists # None /\ call.offsets_index = None /\ pc # "offsets") =>
          /\ error = "none"
          /\ offset_lists = call.offset_lists
          /\ (Returned /\ NoOverride) =>
                Gedges = GeneratedEdges(coordinates, m, Get(call.offset_lists))

C5_Witness ==
    /\ pc = "raised" /\ error = "DWaveNetworkXException"
    /\ call = [offset_lists |-> Some(CustomOffsets), offsets_index |-> Some(0)]

\* the edges before the node_list step: generated, or those of edge_list
BaseEdges ==
    IF edge_list = None
    THEN GeneratedEdges(coordinates, m, Get(offset_lists))
    ELSE AddEdgesEdges({}, Get(edge_list))

C7_LabelingEquivalence ==
    (Returned /\ NoOverride) =>
        LET IntEdges == GeneratedEdges(FALSE, m, Get(offset_lists))
            CoordEdges == GeneratedEdges(TRUE, m, Get(offset_lists))
            IntNodes == UNION IntEdges
            CoordNodes == UNION CoordEdges
            Relabel(e) == { LinearIndex(m, q) : q \in e }
        IN  IF coordinates
            THEN /\ { LinearIndex(m, q) : q \in Nodes } = IntNodes
                 /\ Cardinality(IntNodes) = Cardinality(Nodes)
                 /\ { Relabel(e) : e \in Gedges } = IntEdges
                 /\ Cardinality(IntEdges) = Cardinality(Gedges)
                 /\ \A q \in ValidTuples(m) :
                       q \in Nodes <=> LinearIndex(m, q) \in IntNodes
            ELSE /\ Nodes = { LinearIndex(m, q) : q \in CoordNodes }
                 /\ Cardinality(Nodes) = Cardinality(CoordNodes)
                 /\ Gedges = { Relabel(e) : e \in CoordEdges }
                 /\ Cardinality(Gedges) = Cardinality(CoordEdges)
                 /\ \A q \in ValidTuples(m) :
                       q \in CoordNodes <=> LinearIndex(m, q) \in Nodes

C7_Witness ==
    /\ Returned /\ NoOverride /\ coordinates /\ m = 3
    /\ call = [offset_lists |-> None, offsets_index |-> Some(2)]
    /\ { <<0, 1, 3, 0>>, <<1, 0, 2, 0>> } \in Gedges

\* C8: whenever data=True every vertex of the returned graph carries the
\* cross-reference attribute, whatever node_list and edge_list are.
C8_EveryVertexTagged ==
    (Returned /\ data) => \A n \in Nodes : RefKey \in DOMAIN Gnode[n]

\* a label that is out of range for m is referenced by node_list or edge_list
BadOverride ==
    \/ node_list # None
         /\ \E n \in Get(node_list) : ~ ValidLabel(coordinates, m, n)
    \/ edge_list # None
         /\ \E p \in Get(edge_list) :
               ~ ValidLabel(coordinates, m, p[1]) \/ ~ ValidLabel(coordinates, m, p[2])

\* C9: a call whose node_list or edge_list references an out-of-range label
\* fails and returns no graph; every vertex of a returned graph is a valid
\* label for m.
C9_NoPartialSuccess ==
    /\ BadOverride => pc \notin {"returned", "layout_done"}
    /\ Returned => \A n \in Nodes : ValidLabel(coordinates, m, n)

\* C10: every returned graph exposes family = "pegasus", rows = m, its
\* labeling mode and the offset tables, and pegasus_layout accepts it.
C10_GraphProperties ==
    /\ Returned =>
          /\ "family" \in DOMAIN Ggraph /\ Ggraph["family"] = "pegasus"
          /\ "rows" \in DOMAIN Ggraph /\ Ggraph["rows"] = m
          /\ {"labels", "vertical_offsets", "horizontal_offsets"} \subseteq DOMAIN Ggraph
    /\ pc = "layout_done" => layout_error = "none"

\* C11: an offsets_index outside 0..7 with no offset_lists is an error
\* surfaced to the caller: the call raises and no graph is built from a
\* predefined configuration.
C11_IndexRange ==
    (/\ call.offset_lists = None
     /\ call.offsets_index # None
     /\ Get(call.offsets_index) \notin 0 .. 7
     /\ pc # "offsets") =>
        /\ pc = "raised"
        /\ error # "none"
        /\ offset_lists = None

\* the label of tuple q in the labeling mode of the call
LabelOf(q) == IF coordinates THEN q ELSE LinearIndex(m, q)

\* the <<w, kk, k, z>> for which G has an edge between (0, w, k, z) and a
\* u = 1 vertex of slot kk
CrossAdmitted ==
    LET V0 == { q \in ValidTuples(m) : q[1] = 0 }
        V1 == { q \in ValidTuples(m) : q[1] = 1 }
    IN  { <<p[1][2], p[2][3], p[1][3], p[1][4]>> :
            p \in { r \in V0 \X V1 : {LabelOf(r[1]), LabelOf(r[2])} \in Gedges } }

AllCrossIdx == Range(0, m) \X Range(0, 12) \X Range(0, 12) \X Range(0, m - 1)

\* C12 as stated: k is bounded below by off1[kk] at w = 0, above by off0[kk]
\* at w = m-1, and not at all in between.
C12_Off0BoundsEnd ==
    (Returned /\ NoOverride) =>
        CrossAdmitted =
            { i \in AllCrossIdx :
                /\ i[1] # 0 \/ i[3] >= At(Get(offset_lists)[2], i[2])
                /\ i[1] < m - 1 \/ i[3] < At(Get(offset_lists)[1], i[2]) }

\* C12 (amended): k is bounded below by off1[kk] at w = 0, above by off1[kk]
\* as well at w = m-1, and not at all for 0 < w < m-1; off0 only shifts the
\* tile index of the second endpoint.
C12_Off1BoundsBoth ==
    (Returned /\ NoOverride) =>
        CrossAdmitted =
            { i \in AllCrossIdx :
                /\ i[1] # 0 \/ i[3] >= At(Get(offset_lists)[2], i[2])
                /\ i[1] < m - 1 \/ i[3] < At(Get(offset_lists)[2], i[2]) }

C12_Witness ==
    /\ Returned /\ NoOverride /\ m = 3 /\ coordinates
    /\ call = [offset_lists |-> None, offsets_index |-> Some(0)]
    /\ <<2, 0, 5, 0>> \in CrossAdmitted
    /\ <<2, 0, 1, 0>> \in CrossAdmitted
    /\ <<2, 0, 6, 0>> \notin CrossAdmitted
    /\ <<0, 0, 5, 0>> \notin CrossAdmitted
    /\ <<1, 0, 11, 0>> \in CrossAdmitted

====
